---------------------------- MODULE Spec2Model ----------------------------
(***************************************************************************)
(* A model of three parts of the game: the flocking simulation of          *)
(* src/src/boids.rs (the system move_boids and the functions it calls),    *)
(* the deck of src/src/cards/deck.rs and shape_collisions of               *)
(* src/src/board/mod.rs.  The parts share no state: each has its variables *)
(* and its specification, in which the other two are at rest.              *)
(*                                                                         *)
(* Numbers.  The program computes in f32, and so does the model: an f32 is *)
(* a pair <<m, e>> that stands for m * 2^e, with m = 0 and e = 0 for zero  *)
(* and 2^23 <= |m| < 2^24 otherwise, and every operation rounds its exact  *)
(* result to the nearest such number, ties to the even m, as IEEE 754      *)
(* binary32 does.  NaN is the pair <<0, 1>>: it propagates through the     *)
(* arithmetic and makes every comparison false.  Three things of binary32  *)
(* are left out, none of which the program reaches from the flocks below:  *)
(* the sign of zero, the infinities (x / 0 for x # 0) and the limits of    *)
(* the exponent.  All intermediate integers stay below 2^31.               *)
(*                                                                         *)
(* With(v, Body) is Body(v), and With2(v, w, Body) is Body(v, w): a value  *)
(* that is used more than once is named this way, so that it is computed   *)
(* once.                                                                   *)
(***************************************************************************)
EXTENDS Integers, Sequences, FiniteSets

With(value, Body(_)) == CHOOSE result \in {Body(x) : x \in {value}} : TRUE

With2(value1, value2, Body(_, _)) ==
    CHOOSE result \in {Body(x, y) : x \in {value1}, y \in {value2}} : TRUE

(***************************************************************************)
(* f32 arithmetic                                                          *)
(***************************************************************************)
NaN == <<0, 1>>

Zero == <<0, 0>>

IsNaN(a) == a = NaN

\* the number of bits of x, 0 <= x < 2^31
BitLen(x) ==
    IF x >= 2^30 THEN 31
    ELSE CHOOSE n \in 0..30 : x < 2^n /\ (n = 0 \/ x >= 2^(n - 1))

\* x / 2^g rounded to the nearest integer, ties to even
RoundNE(x, g) ==
    LET q == x \div 2^g
        r == x % 2^g
        half == 2^(g - 1)
    IN  IF r > half \/ (r = half /\ q % 2 = 1) THEN q + 1 ELSE q

\* the f32 nearest to sign * x * 2^e, where x >= 0 and the lowest bit of x
\* is a sticky bit (set when nonzero bits below it were dropped)
Pack(sign, x, e) ==
    IF x = 0 THEN Zero
    ELSE With(BitLen(x), LAMBDA len :
           IF len > 24
           THEN With(RoundNE(x, len - 24), LAMBDA m :
                  IF m = 2^24 THEN <<sign * 2^23, e + len - 23>>
                  ELSE <<sign * m, e + len - 24>>)
           ELSE <<sign * x * 2^(24 - len), e - (24 - len)>>)

\* x / 2^d, with a sticky bit appended
ShrSticky(x, d) ==
    IF d >= 31 THEN (IF x # 0 THEN 1 ELSE 0)
    ELSE (x \div 2^d) * 2 + (IF x % 2^d # 0 THEN 1 ELSE 0)

Abs(x) == IF x < 0 THEN -x ELSE x

Sign(x) == IF x < 0 THEN -1 ELSE 1

FNeg(a) == With(a, LAMBDA x : IF IsNaN(x) THEN NaN ELSE <<-x[1], x[2]>>)

FAbs(a) == With(a, LAMBDA x : IF IsNaN(x) THEN NaN ELSE <<Abs(x[1]), x[2]>>)

\* a + b for a, b nonzero and |a| >= |b|: three extra bits, the last sticky
AddOrdered(a, b) ==
    LET big == Abs(a[1]) * 8
        small == ShrSticky(Abs(b[1]) * 4, a[2] - b[2])
    IN  With(IF Sign(a[1]) = Sign(b[1]) THEN big + small ELSE big - small,
             LAMBDA sum : Pack(Sign(a[1]), sum, a[2] - 3))

Add(a, b) ==
    IF IsNaN(a) \/ IsNaN(b) THEN NaN
    ELSE IF a[1] = 0 THEN b
    ELSE IF b[1] = 0 THEN a
    ELSE IF a[2] < b[2] \/ (a[2] = b[2] /\ Abs(a[1]) < Abs(b[1]))
    THEN AddOrdered(b, a)
    ELSE AddOrdered(a, b)

FAdd(a, b) == With2(a, b, Add)

FSub(a, b) == FAdd(a, FNeg(b))

\* the 48-bit product of the two 24-bit magnitudes, from 12-bit halves
Mul(a, b) ==
    IF IsNaN(a) \/ IsNaN(b) THEN NaN
    ELSE IF a[1] = 0 \/ b[1] = 0 THEN Zero
    ELSE LET x1 == Abs(a[1]) \div 4096
             x0 == Abs(a[1]) % 4096
             y1 == Abs(b[1]) \div 4096
             y0 == Abs(b[1]) % 4096
         IN  With2(x1 * y0 + x0 * y1, x0 * y0, LAMBDA mid, low0 :
               With(low0 + (mid % 4096) * 4096, LAMBDA low :
                 With((((x1 * y1 + mid \div 4096 + low \div 2^24) * 32
                           + (low % 2^24) \div 2^19) * 2)
                         + (IF (low % 2^24) % 2^19 # 0 THEN 1 ELSE 0),
                      LAMBDA top :
                        Pack(Sign(a[1]) * Sign(b[1]), top, a[2] + b[2] + 18))))

FMul(a, b) == With2(a, b, Mul)

\* seven more bits of the quotient of the magnitudes: qr = <<quotient, remainder>>
DivStep(qr, y) ==
    With(qr, LAMBDA v : <<v[1] * 128 + (v[2] * 128) \div y, (v[2] * 128) % y>>)

\* 0 / 0 is NaN; a nonzero x / 0 is infinite, which no f32 of the model is:
\* the program divides by 0 only 0 itself
Div(a, b) ==
    IF IsNaN(a) \/ IsNaN(b) THEN NaN
    ELSE IF b[1] = 0 THEN NaN
    ELSE IF a[1] = 0 THEN Zero
    ELSE LET x == Abs(a[1])
             y == Abs(b[1])
         IN  With(DivStep(DivStep(DivStep(DivStep(<<x \div y, x % y>>, y), y), y), y),
                  LAMBDA qr :
                    With(qr[1] * 2 + (IF qr[2] # 0 THEN 1 ELSE 0), LAMBDA top :
                      Pack(Sign(a[1]) * Sign(b[1]), top, a[2] - b[2] - 29)))

FDiv(a, b) == With2(a, b, Div)

\* one more bit of the root: s = <<remainder, root>>, pair the next two bits
\* of the operand
SqrtStep(s, pair) ==
    LET r == s[1] * 4 + pair
        trial == s[2] * 4 + 1
    IN  IF r >= trial THEN <<r - trial, s[2] * 2 + 1>> ELSE <<r, s[2] * 2>>

\* the square root bit by bit: the 13 pairs of bits of m, then 13 pairs of
\* zeros, give the 26 bits of the root, and a sticky bit after them
RECURSIVE SqrtBits(_, _, _)
SqrtBits(m, i, s) ==
    IF i = 26 THEN s[2] * 2 + (IF s[1] # 0 THEN 1 ELSE 0)
    ELSE With2(i + 1, SqrtStep(s, IF i < 13 THEN (m \div 4^(12 - i)) % 4 ELSE 0),
               LAMBDA j, t : SqrtBits(m, j, t))

Sqrt(a) ==
    IF IsNaN(a) \/ a[1] < 0 THEN NaN
    ELSE IF a[1] = 0 THEN Zero
    ELSE With(IF a[2] % 2 # 0 THEN <<a[1] * 2, a[2] - 1>> ELSE a, LAMBDA even :
           With(SqrtBits(even[1], 0, <<0, 0>>), LAMBDA top :
             Pack(1, top, (even[2] - 26) \div 2 - 1)))

FSqrt(a) == With(a, Sqrt)

Lt(a, b) ==
    /\ ~IsNaN(a)
    /\ ~IsNaN(b)
    /\ IF a[1] = 0 THEN b[1] > 0
       ELSE IF b[1] = 0 THEN a[1] < 0
       ELSE IF a[1] > 0 /\ b[1] < 0 THEN FALSE
       ELSE IF a[1] < 0 /\ b[1] > 0 THEN TRUE
       ELSE IF a[1] > 0 THEN a[2] < b[2] \/ (a[2] = b[2] /\ a[1] < b[1])
       ELSE a[2] > b[2] \/ (a[2] = b[2] /\ a[1] < b[1])

Le(a, b) == ~IsNaN(a) /\ ~IsNaN(b) /\ (a = b \/ Lt(a, b))

FLt(a, b) == With2(a, b, Lt)

FLe(a, b) == With2(a, b, Le)

FGt(a, b) == FLt(b, a)

FGe(a, b) == FLe(b, a)

\* the f32 of the integer n: `n as f32`, and the literals `n.`
FromInt(n) == With(Abs(n) * 2, LAMBDA x : Pack(Sign(n), x, -1))

\* the f32 of the decimal literal n / d: the f32 nearest to it
Literal(n, d) == FDiv(FromInt(n), FromInt(d))

(***************************************************************************)
(* The constants of boids.rs                                               *)
(***************************************************************************)
TURN_FACTOR == FromInt(1)

VISION_RANGE == 50

ISOLATION_RANGE == 10

CENTERING_FACTOR == Literal(5, 10000)

AVOIDANCE_FACTOR == Literal(1, 10)

MATCHING_FACTOR == Literal(15, 100)

MAX_SPEED == FromInt(6)

MIN_SPEED == Literal(55, 10)

BIAS == Literal(5, 100)

\* the margin of turn_if_edge
EDGE_MARGIN == 200

(***************************************************************************)
(* Roles and boids                                                         *)
(***************************************************************************)
Common == [kind |-> "Common", group |-> 0]

Scout(g) == [kind |-> "Scout", group |-> g]

\* BoidBundle::new: the given position and role, velocity Vec3::ZERO
BoidBundle_new(pos, role) ==
    [pos |-> <<FromInt(pos[1]), FromInt(pos[2])>>, vel |-> <<Zero, Zero>>,
     role |-> role]

(***************************************************************************)
(* The neighbor estimate                                                   *)
(***************************************************************************)
BoidEstimate_new ==
    [xpos_avg |-> Zero, ypos_avg |-> Zero, xvel_avg |-> Zero, yvel_avg |-> Zero,
     neighboring_boids |-> 0, close_dx |-> Zero, close_dy |-> Zero]

\* evaluate_situation with the visual-range test made before the
\* protected-range test
evaluate_situation_visual_first(current, other, estimate) ==
    With2(FromInt(VISION_RANGE), FromInt(ISOLATION_RANGE),
          LAMBDA visual_range, protected_range :
    With2(FSub(current.pos[1], other.pos[1]), FSub(current.pos[2], other.pos[2]),
          LAMBDA dx, dy :
            IF FLt(FAbs(dx), visual_range) /\ FLt(FAbs(dy), visual_range)
            THEN With(FAdd(FMul(dx, dx), FMul(dy, dy)), LAMBDA squared_distance :
                   IF FLt(squared_distance, FMul(visual_range, visual_range))
                   THEN [estimate EXCEPT
                          !.xpos_avg = FAdd(@, other.pos[1]),
                          !.ypos_avg = FAdd(@, other.pos[2]),
                          !.xvel_avg = FAdd(@, other.vel[1]),
                          !.yvel_avg = FAdd(@, other.vel[2]),
                          !.neighboring_boids = @ + 1]
                   ELSE IF FLt(squared_distance, FMul(protected_range, protected_range))
                   THEN [estimate EXCEPT
                          !.close_dx = FAdd(@, FSub(current.pos[1], other.pos[1])),
                          !.close_dy = FAdd(@, FSub(current.pos[2], other.pos[2]))]
                   ELSE estimate)
            ELSE estimate))

\* evaluate_situation counting a boid inside the protected range as a neighbor
evaluate_situation_counts_close(current, other, estimate) ==
    With2(FromInt(VISION_RANGE), FromInt(ISOLATION_RANGE),
          LAMBDA visual_range, protected_range :
    With2(FSub(current.pos[1], other.pos[1]), FSub(current.pos[2], other.pos[2]),
          LAMBDA dx, dy :
            IF FLt(FAbs(dx), visual_range) /\ FLt(FAbs(dy), visual_range)
            THEN With(FAdd(FMul(dx, dx), FMul(dy, dy)), LAMBDA squared_distance :
                   IF FLt(squared_distance, FMul(protected_range, protected_range))
                   THEN [estimate EXCEPT
                          !.close_dx = FAdd(@, FSub(current.pos[1], other.pos[1])),
                          !.close_dy = FAdd(@, FSub(current.pos[2], other.pos[2])),
                          !.neighboring_boids =
                             IF dx = Zero /\ dy = Zero THEN @ ELSE @ + 1]
                   ELSE IF FLt(squared_distance, FMul(visual_range, visual_range))
                   THEN [estimate EXCEPT
                          !.xpos_avg = FAdd(@, other.pos[1]),
                          !.ypos_avg = FAdd(@, other.pos[2]),
                          !.xvel_avg = FAdd(@, other.vel[1]),
                          !.yvel_avg = FAdd(@, other.vel[2]),
                          !.neighboring_boids = @ + 1]
                   ELSE estimate)
            ELSE estimate))

\* evaluate_situation without the box test and without the test of the visual
\* radius: every boid outside the protected range is counted as a neighbor
evaluate_situation_unbounded(current, other, estimate) ==
    With(FromInt(ISOLATION_RANGE), LAMBDA protected_range :
    With2(FSub(current.pos[1], other.pos[1]), FSub(current.pos[2], other.pos[2]),
          LAMBDA dx, dy :
            With(FAdd(FMul(dx, dx), FMul(dy, dy)), LAMBDA squared_distance :
              IF FLt(squared_distance, FMul(protected_range, protected_range))
              THEN [estimate EXCEPT
                     !.close_dx = FAdd(@, FSub(current.pos[1], other.pos[1])),
                     !.close_dy = FAdd(@, FSub(current.pos[2], other.pos[2]))]
              ELSE [estimate EXCEPT
                     !.xpos_avg = FAdd(@, other.pos[1]),
                     !.ypos_avg = FAdd(@, other.pos[2]),
                     !.xvel_avg = FAdd(@, other.vel[1]),
                     !.yvel_avg = FAdd(@, other.vel[2]),
                     !.neighboring_boids = @ + 1])))

evaluate_situation(current, other, estimate) ==
    With2(FromInt(VISION_RANGE), FromInt(ISOLATION_RANGE),
          LAMBDA visual_range, protected_range :
    With2(FSub(current.pos[1], other.pos[1]), FSub(current.pos[2], other.pos[2]),
          LAMBDA dx, dy :
            IF FLt(FAbs(dx), visual_range) /\ FLt(FAbs(dy), visual_range)
            THEN With(FAdd(FMul(dx, dx), FMul(dy, dy)), LAMBDA squared_distance :
                   IF FLt(squared_distance, FMul(protected_range, protected_range))
                   THEN [estimate EXCEPT
                          !.close_dx = FAdd(@, FSub(current.pos[1], other.pos[1])),
                          !.close_dy = FAdd(@, FSub(current.pos[2], other.pos[2]))]
                   ELSE IF FLt(squared_distance, FMul(visual_range, visual_range))
                   THEN [estimate EXCEPT
                          !.xpos_avg = FAdd(@, other.pos[1]),
                          !.ypos_avg = FAdd(@, other.pos[2]),
                          !.xvel_avg = FAdd(@, other.vel[1]),
                          !.yvel_avg = FAdd(@, other.vel[2]),
                          !.neighboring_boids = @ + 1]
                   ELSE estimate)
            ELSE estimate))

\* the inner loop of move_boids: evaluate_situation over every entry of others
RECURSIVE ScanFrom(_, _, _, _)
ScanFrom(current, others, k, estimate) ==
    IF k > Len(others) THEN estimate
    ELSE ScanFrom(current, others, k + 1,
                  evaluate_situation(current, others[k], estimate))

ScanAll(current, others) == ScanFrom(current, others, 1, BoidEstimate_new)

set_average_speed_and_pos(estimate) ==
    With(FromInt(estimate.neighboring_boids), LAMBDA neighboring_boids :
      [estimate EXCEPT !.xpos_avg = FDiv(@, neighboring_boids),
                       !.ypos_avg = FDiv(@, neighboring_boids),
                       !.xvel_avg = FDiv(@, neighboring_boids),
                       !.yvel_avg = FDiv(@, neighboring_boids)])

(***************************************************************************)
(* The steering rules                                                      *)
(***************************************************************************)
apply_cohesion(current, estimate) ==
    LET pos == current.pos
        v == current.vel
    IN  [current EXCEPT !.vel =
           <<FAdd(v[1], FAdd(FMul(FSub(estimate.xpos_avg, pos[1]), CENTERING_FACTOR),
                             FMul(FSub(estimate.xvel_avg, v[1]), MATCHING_FACTOR))),
             FAdd(v[2], FAdd(FMul(FSub(estimate.ypos_avg, pos[2]), CENTERING_FACTOR),
                             FMul(FSub(estimate.yvel_avg, v[2]), MATCHING_FACTOR)))>>]

apply_alignment(current, estimate) ==
    LET v == current.vel
    IN  [current EXCEPT !.vel =
           <<FAdd(v[1], FMul(FSub(estimate.xvel_avg, v[1]), MATCHING_FACTOR)),
             FAdd(v[2], FMul(FSub(estimate.yvel_avg, v[2]), MATCHING_FACTOR))>>]

apply_avoidance(current, estimate) ==
    LET v == current.vel
    IN  [current EXCEPT !.vel =
           <<FAdd(v[1], FMul(estimate.close_dx, AVOIDANCE_FACTOR)),
             FAdd(v[2], FMul(estimate.close_dy, AVOIDANCE_FACTOR))>>]

\* screen_dimensions is <<width, height>>
turn_if_edge(current, screen_dimensions) ==
    LET x == current.pos[1]
        y == current.pos[2]
        v == current.vel
        width == screen_dimensions[1]
        height == screen_dimensions[2]
        two == FromInt(2)
        margin == FromInt(EDGE_MARGIN)
        vx == IF FLe(x, FAdd(FDiv(FNeg(width), two), margin))
              THEN FAdd(v[1], TURN_FACTOR)
              ELSE IF FGe(x, FSub(FDiv(width, two), margin))
              THEN FSub(v[1], TURN_FACTOR)
              ELSE v[1]
        vy == IF FLe(y, FAdd(FDiv(FNeg(height), two), margin))
              THEN FAdd(v[2], TURN_FACTOR)
              ELSE IF FGe(y, FSub(FDiv(height, two), margin))
              THEN FSub(v[2], TURN_FACTOR)
              ELSE v[2]
    IN  [current EXCEPT !.vel = <<vx, vy>>]

\* apply_bias with the bias of Scout(2) added, as that of Scout(1) is
apply_bias_same_side(current) ==
    LET v == current.vel
        one_minus_bias == FSub(FromInt(1), BIAS)
    IN  IF current.role = Scout(1)
        THEN [current EXCEPT !.vel[1] = FAdd(FMul(one_minus_bias, v[1]), BIAS)]
        ELSE IF current.role = Scout(2)
        THEN [current EXCEPT !.vel[1] = FAdd(FMul(one_minus_bias, v[1]), BIAS)]
        ELSE current

\* apply_bias turning a scout it has biased into a Common boid
apply_bias_once(current) ==
    LET v == current.vel
        one_minus_bias == FSub(FromInt(1), BIAS)
    IN  IF current.role = Scout(1)
        THEN [current EXCEPT !.vel[1] = FAdd(FMul(one_minus_bias, v[1]), BIAS),
                             !.role = Common]
        ELSE IF current.role = Scout(2)
        THEN [current EXCEPT !.vel[1] = FSub(FMul(one_minus_bias, v[1]), BIAS),
                             !.role = Common]
        ELSE current

apply_bias(current) ==
    LET v == current.vel
        one_minus_bias == FSub(FromInt(1), BIAS)
    IN  IF current.role = Scout(1)
        THEN [current EXCEPT !.vel[1] = FAdd(FMul(one_minus_bias, v[1]), BIAS)]
        ELSE IF current.role = Scout(2)
        THEN [current EXCEPT !.vel[1] = FSub(FMul(one_minus_bias, v[1]), BIAS)]
        ELSE current

(***************************************************************************)
(* The speed normalizer                                                    *)
(***************************************************************************)
\* f32::sqrt(v.x * v.x + v.y * v.y)
Speed(v) == FSqrt(FAdd(FMul(v[1], v[1]), FMul(v[2], v[2])))

\* compute_new_speed without the test against max_speed
compute_new_speed_no_max(current) ==
    LET v == current.vel
    IN  With(Speed(v), LAMBDA speed :
          IF FLt(speed, MIN_SPEED)
          THEN [current EXCEPT !.vel = <<FMul(FDiv(v[1], speed), MIN_SPEED),
                                         FMul(FDiv(v[2], speed), MIN_SPEED)>>]
          ELSE current)

\* both tests read the speed computed on entry; a speed of 0 is below
\* min_speed and divides 0 by 0
compute_new_speed(current) ==
    LET v == current.vel
    IN  With(Speed(v), LAMBDA speed :
          With(IF FLt(speed, MIN_SPEED)
               THEN <<FMul(FDiv(v[1], speed), MIN_SPEED),
                      FMul(FDiv(v[2], speed), MIN_SPEED)>>
               ELSE v,
               LAMBDA v1 :
                 [current EXCEPT !.vel =
                    IF FGt(speed, MAX_SPEED)
                    THEN <<FMul(FDiv(v1[1], speed), MAX_SPEED),
                           FMul(FDiv(v1[2], speed), MAX_SPEED)>>
                    ELSE v1]))

(***************************************************************************)
(* The integrator                                                          *)
(***************************************************************************)
\* one coordinate after the clamp; a NaN coordinate passes both tests
Clamp(p, bound) ==
    IF FGt(p, bound) THEN bound
    ELSE IF FLe(p, FNeg(bound)) THEN FNeg(bound)
    ELSE p

compute_new_position(current, screen_dimensions) ==
    LET v == current.vel
    IN  With2(FDiv(screen_dimensions[1], FromInt(2)),
              FDiv(screen_dimensions[2], FromInt(2)),
              LAMBDA width, height :
                With2(FAdd(current.pos[1], v[1]), FAdd(current.pos[2], v[2]),
                      LAMBDA x, y :
                        [current EXCEPT !.pos = <<Clamp(x, width), Clamp(y, height)>>]))

(***************************************************************************)
(* One pass of the loop of move_boids over one boid                        *)
(***************************************************************************)
\* Steer with apply_avoidance outside the guard on neighboring_boids
Steer_avoid_always(boid, estimate) ==
    IF estimate.neighboring_boids > 0
    THEN With(set_average_speed_and_pos(estimate), LAMBDA averaged :
         With(apply_cohesion(boid, averaged), LAMBDA cohered :
         With(apply_alignment(cohered, averaged), LAMBDA aligned :
           [averaged |-> averaged, cohered |-> cohered, aligned |-> aligned,
            steered |-> apply_avoidance(aligned, averaged)])))
    ELSE [averaged |-> estimate, cohered |-> boid, aligned |-> boid,
          steered |-> apply_avoidance(boid, estimate)]

\* Steer with the velocity matched once only: apply_alignment is left out
Steer_align_once(boid, estimate) ==
    IF estimate.neighboring_boids > 0
    THEN With(set_average_speed_and_pos(estimate), LAMBDA averaged :
         With(apply_cohesion(boid, averaged), LAMBDA cohered :
           [averaged |-> averaged, cohered |-> cohered, aligned |-> cohered,
            steered |-> apply_avoidance(cohered, averaged)]))
    ELSE [averaged |-> estimate, cohered |-> boid, aligned |-> boid,
          steered |-> boid]

\* the block guarded by neighboring_boids > 0: the estimate after the averages
\* are taken, and the boid after cohesion, after alignment and after avoidance;
\* when the block is skipped the estimate and the boid are as they were
Steer(boid, estimate) ==
    IF estimate.neighboring_boids > 0
    THEN With(set_average_speed_and_pos(estimate), LAMBDA averaged :
         With(apply_cohesion(boid, averaged), LAMBDA cohered :
         With(apply_alignment(cohered, averaged), LAMBDA aligned :
           [averaged |-> averaged, cohered |-> cohered, aligned |-> aligned,
            steered |-> apply_avoidance(aligned, averaged)])))
    ELSE [averaged |-> estimate, cohered |-> boid, aligned |-> boid,
          steered |-> boid]

\* the body of `for mut boid in boids.iter_mut()`, with the boid as it stands
\* after each call
LoopBody(index, boid, tmp, screen_dimensions) ==
    With(ScanAll(boid, tmp), LAMBDA estimate :
    With(Steer(boid, estimate), LAMBDA steps :
    With(turn_if_edge(steps.steered, screen_dimensions), LAMBDA turned :
    With(apply_bias(turned), LAMBDA biased :
    With(compute_new_speed(biased), LAMBDA normalized :
      [index |-> index, start |-> boid, estimate |-> estimate,
       averaged |-> steps.averaged, cohered |-> steps.cohered,
       aligned |-> steps.aligned, steered |-> steps.steered,
       turned |-> turned, biased |-> biased, normalized |-> normalized,
       moved |-> compute_new_position(normalized, screen_dimensions)])))))

\* the clone of the query results taken before the loop
CloneQuery(query) == [i \in 1..Len(query) |-> query[i]]

\* IterateBoids with the neighbors read from the live boids, not the clone
RECURSIVE IterateBoids_scan_live(_, _, _, _, _)
IterateBoids_scan_live(i, live, tmp, screen_dimensions, log) ==
    IF i > Len(live) THEN [live |-> live, log |-> log]
    ELSE With(LoopBody(i, live[i], live, screen_dimensions), LAMBDA pass :
         With2([live EXCEPT ![i] = pass.moved], Append(log, pass),
               LAMBDA mutated, passes :
                 IterateBoids_scan_live(i + 1, mutated, tmp, screen_dimensions, passes)))

\* IterateBoids stopping one boid short of the end
RECURSIVE IterateBoids_skip_last(_, _, _, _, _)
IterateBoids_skip_last(i, live, tmp, screen_dimensions, log) ==
    IF i >= Len(live) THEN [live |-> live, log |-> log]
    ELSE With(LoopBody(i, live[i], tmp, screen_dimensions), LAMBDA pass :
         With2([live EXCEPT ![i] = pass.moved], Append(log, pass),
               LAMBDA mutated, passes :
                 IterateBoids_skip_last(i + 1, mutated, tmp, screen_dimensions, passes)))

\* the loop over boids.iter_mut(), from the boid at index i on: live holds the
\* boids as mutated so far, tmp the clone, log the passes made so far
RECURSIVE IterateBoids(_, _, _, _, _)
IterateBoids(i, live, tmp, screen_dimensions, log) ==
    IF i > Len(live) THEN [live |-> live, log |-> log]
    ELSE With(LoopBody(i, live[i], tmp, screen_dimensions), LAMBDA pass :
         With2([live EXCEPT ![i] = pass.moved], Append(log, pass),
               LAMBDA mutated, passes :
                 IterateBoids(i + 1, mutated, tmp, screen_dimensions, passes)))

(***************************************************************************)
(* The state                                                               *)
(***************************************************************************)
VARIABLES
    boids,    \* the boids of the world, in query order: [pos, vel, role]
    window,   \* the window the last frame found
    driver,   \* "Idle" or "Stepping": whether the last frame found a single window
    log,      \* the passes of the loop made in the last frame, in order
    frames    \* the number of frames run

VARIABLES
    game_state,      \* State<GameState>
    next_state_res,  \* the NextState resource: NoState or the state requested
    spawned,         \* DeckSetup.spawned
    library,         \* the children of the Library entity, in order
    hand,            \* the children of the Hand entity, in order
    discard,         \* the children of the Discard entity, in order
    spawn_events,    \* SpawnCard events sent and not yet handled
    draw_events,     \* DrawCard events sent and not yet read by draw_card
    shuffle_events,  \* ShuffleDiscard events sent and not yet read by discard_into_library
    flip_events,     \* the cards of the FlipCard events sent in this frame, in order
    commands,        \* the commands queued in this frame, in order
    ran,             \* the systems of deck.rs that have run in this frame
    deck_log,        \* what the last system that ran did
    phase_sent,      \* the events the phase system has sent since the state was entered
    rounds,          \* the number of times the state Draw has been entered
    panicked         \* whether a system has panicked

VARIABLES
    rules,             \* the Rule entities of the world, each a sequence of operations
    entities,          \* the number of entities that can collide, the entities 1..entities
    q_shape,           \* the shape of every entity that q_shape finds
    collision_events,  \* Collision events sent and not yet read by shape_collisions
    s_event,           \* SpawnBody events sent and not yet read by spawn_bodies
    spawn_commands,    \* the shapes of the bodies spawn_bodies has queued in this frame
    board_ran,         \* the systems of board/mod.rs that have run in this frame
    board_log          \* what shape_collisions did in its run of this frame

boidVars == <<boids, window, driver, log, frames>>

deckVars == <<game_state, next_state_res, spawned, library, hand, discard,
              spawn_events, draw_events, shuffle_events, flip_events, commands,
              ran, deck_log, phase_sent, rounds, panicked>>

boardVars == <<rules, entities, q_shape, collision_events, s_event, spawn_commands,
               board_ran, board_log>>

vars == <<boidVars, deckVars, boardVars>>

(***************************************************************************)
(* The deck of src/src/cards/deck.rs                                       *)
(*                                                                         *)
(* A frame runs every system of the plugin once, in an order the schedule  *)
(* does not fix; the commands the systems queue (re-parenting a card,      *)
(* inserting NextState) take effect when the frame ends, so every system   *)
(* of a frame sees the hierarchy as the frame found it, and an event is    *)
(* read in the frame it is sent in or in the next.  Time is the choice, in *)
(* each frame, of whether the timer a system ticks has finished.           *)
(***************************************************************************)
\* the number of times the state Draw is entered
MaxRounds == 14

\* the values DeckPlugin::build gives to DeckSetup
hand_size == 5

library_size == 60

NoState == "None"

\* GameState::next_state: the order of the states of the card game
next_state(state) ==
    CASE state = "Setup" -> "Draw"
      [] state = "Draw" -> "Playing"
      [] state = "Playing" -> "Discard"
      [] state = "Discard" -> "Draw"

\* the systems of a frame: draw_card, discard_into_library and the one
\* system that runs in the current state
Systems == {"draw_card", "discard_into_library", "phase"}

\* cmd.insert_resource(NextState(state))
InsertNextState(state) == [op |-> "insert_next_state", state |-> state, card |-> 0, parent |-> ""]

\* cmd.entity(child).remove_parent() followed by
\* cmd.entity(parent).push_children(&[child])
Reparent(child, parent) == [op |-> "reparent", state |-> NoState, card |-> child, parent |-> parent]

\* the sequence of n copies of x
Repeat(x, n) == [i \in 1..n |-> x]

\* the children of a parent if push_children kept every push of a card, a
\* card pushed twice being twice a child
ChildrenAfter_every_push(children, parent, queue) ==
    LET moved == {queue[i].card : i \in {k \in 1..Len(queue) : queue[k].op = "reparent"}}
        pushed == SelectSeq([i \in 1..Len(queue) |-> i],
                            LAMBDA i : /\ queue[i].op = "reparent"
                                       /\ queue[i].parent = parent)
    IN  SelectSeq(children, LAMBDA c : c \notin moved)
           \o [n \in 1..Len(pushed) |-> queue[pushed[n]].card]

\* the children of a parent after the commands of the queue have been applied
\* in order: a card that is re-parented leaves the children of its parent and
\* is pushed at the end of those of the new one, so the children are those
\* no command moved, as they were, followed by the cards whose last command
\* pushed them here, in the order of these commands
ChildrenAfter(children, parent, queue) ==
    LET moved == {queue[i].card : i \in {k \in 1..Len(queue) : queue[k].op = "reparent"}}
        IsLast(i) == \A k \in (i + 1)..Len(queue) :
                        ~(queue[k].op = "reparent" /\ queue[k].card = queue[i].card)
        pushed == SelectSeq([i \in 1..Len(queue) |-> i],
                            LAMBDA i : /\ queue[i].op = "reparent"
                                       /\ queue[i].parent = parent
                                       /\ IsLast(i))
    IN  SelectSeq(children, LAMBDA c : c \notin moved)
           \o [n \in 1..Len(pushed) |-> queue[pushed[n]].card]

\* the NextState resource after the commands of the queue: the state of the
\* last insert, if there is one
NextStateAfter(resource, queue) ==
    LET inserts == {k \in 1..Len(queue) : queue[k].op = "insert_next_state"}
    IN  IF inserts = {} THEN resource
        ELSE queue[CHOOSE k \in inserts : \A other \in inserts : other <= k].state

\* what a system did in its run: whether its timer had finished, the events
\* it read and sent, the commands it queued and whether it reset its timer
Ran(system, finished, read, sent, queued, reset) ==
    [system |-> system, finished |-> finished, read |-> read, sent |-> sent,
     queued |-> queued, reset |-> reset]

NothingRan == Ran("none", FALSE, 0, 0, <<>>, FALSE)

\* the deck as DeckPlugin::build, spawn_deck and spawn_discard leave it
DeckStart ==
    /\ game_state = "Setup"
    /\ next_state_res = NoState
    /\ spawned = 0
    /\ library = <<>>
    /\ hand = <<>>
    /\ discard = <<>>
    /\ spawn_events = 0
    /\ draw_events = 0
    /\ shuffle_events = 0
    /\ flip_events = <<>>
    /\ commands = <<>>
    /\ ran = {}
    /\ deck_log = NothingRan
    /\ phase_sent = 0
    /\ rounds = 0
    /\ panicked = FALSE

\* a system may run: the state transition of the frame is done, the system
\* has not run in this frame yet, and nothing has panicked
MayRun(system) ==
    /\ ~panicked
    /\ next_state_res = NoState
    /\ system \notin ran

\* setup_decks with the spawned count left as it is when the state is left
setup_decks_keeps_count ==
    /\ MayRun("phase")
    /\ game_state = "Setup"
    /\ \E finished \in BOOLEAN :
         \E count \in {IF finished THEN spawned + 1 ELSE spawned} :
            \E queued \in {IF count >= library_size
                           THEN <<InsertNextState(next_state(game_state))>>
                           ELSE <<>>} :
               /\ spawn_events' = IF finished THEN spawn_events + 1 ELSE spawn_events
               /\ phase_sent' = IF finished THEN phase_sent + 1 ELSE phase_sent
               /\ spawned' = count
               /\ commands' = commands \o queued
               /\ deck_log' = Ran("setup_decks", finished, 0, IF finished THEN 1 ELSE 0,
                                  queued, count >= library_size)
    /\ ran' = ran \cup {"phase"}
    /\ UNCHANGED <<game_state, next_state_res, library, hand, discard, draw_events,
                   shuffle_events, flip_events, rounds, panicked>>
    /\ UNCHANGED <<boidVars, boardVars>>

\* setup_decks, in a frame in state Setup
setup_decks ==
    /\ MayRun("phase")
    /\ game_state = "Setup"
    /\ \E finished \in BOOLEAN :
         \E count \in {IF finished THEN spawned + 1 ELSE spawned} :
            \E queued \in {IF count >= library_size
                           THEN <<InsertNextState(next_state(game_state))>>
                           ELSE <<>>} :
               /\ spawn_events' = IF finished THEN spawn_events + 1 ELSE spawn_events
               /\ phase_sent' = IF finished THEN phase_sent + 1 ELSE phase_sent
               /\ spawned' = IF count >= library_size THEN 0 ELSE count
               /\ commands' = commands \o queued
               /\ deck_log' = Ran("setup_decks", finished, 0, IF finished THEN 1 ELSE 0,
                                  queued, count >= library_size)
    /\ ran' = ran \cup {"phase"}
    /\ UNCHANGED <<game_state, next_state_res, library, hand, discard, draw_events,
                   shuffle_events, flip_events, rounds, panicked>>
    /\ UNCHANGED <<boidVars, boardVars>>

\* draw_to_hand_size, in a frame in state Draw
draw_to_hand_size ==
    /\ MayRun("phase")
    /\ game_state = "Draw"
    /\ \E finished \in BOOLEAN :
         \E count \in {IF finished THEN spawned + 1 ELSE spawned} :
            \E queued \in {IF count >= hand_size
                           THEN <<InsertNextState(next_state(game_state))>>
                           ELSE <<>>} :
               /\ draw_events' = IF finished THEN draw_events + 1 ELSE draw_events
               /\ phase_sent' = IF finished THEN phase_sent + 1 ELSE phase_sent
               /\ spawned' = IF count >= hand_size THEN 0 ELSE count
               /\ commands' = commands \o queued
               /\ deck_log' = Ran("draw_to_hand_size", finished, 0,
                                  IF finished THEN 1 ELSE 0, queued, finished)
    /\ ran' = ran \cup {"phase"}
    /\ UNCHANGED <<game_state, next_state_res, library, hand, discard, spawn_events,
                   shuffle_events, flip_events, rounds, panicked>>
    /\ UNCHANGED <<boidVars, boardVars>>

\* discard_hand in a frame in which discard_timer, if it is ticked, has
\* finished or has not
discard_hand_when(finished) ==
    /\ MayRun("phase")
    /\ game_state = "Discard"
    /\ \E queued \in {IF hand = <<>> THEN <<InsertNextState("Draw")>>
                       ELSE IF finished THEN <<Reparent(Head(hand), "discard")>>
                       ELSE <<>>} :
         /\ commands' = commands \o queued
         /\ deck_log' = Ran("discard_hand", hand # <<>> /\ finished, 0, 0, queued,
                            hand = <<>>)
    /\ ran' = ran \cup {"phase"}
    /\ UNCHANGED <<game_state, next_state_res, spawned, library, hand, discard,
                   spawn_events, draw_events, shuffle_events, flip_events,
                   phase_sent, rounds, panicked>>
    /\ UNCHANGED <<boidVars, boardVars>>

\* discard_hand, in a frame in state Discard
discard_hand == \E finished \in BOOLEAN : discard_hand_when(finished)

\* a frame in state Playing: none of the three phase systems runs, and the
\* state is left when a system outside deck.rs asks for the next one
play_turn ==
    /\ MayRun("phase")
    /\ game_state = "Playing"
    /\ \E queued \in {<<>>, <<InsertNextState(next_state(game_state))>>} :
         /\ commands' = commands \o queued
         /\ deck_log' = Ran("play_turn", FALSE, 0, 0, queued, FALSE)
    /\ ran' = ran \cup {"phase"}
    /\ UNCHANGED <<game_state, next_state_res, spawned, library, hand, discard,
                   spawn_events, draw_events, shuffle_events, flip_events,
                   phase_sent, rounds, panicked>>
    /\ UNCHANGED <<boidVars, boardVars>>

\* draw_card: every DrawCard event not yet read is read in this run
draw_card ==
    /\ MayRun("draw_card")
    /\ \E queued \in {IF library # <<>>
                      THEN Repeat(Reparent(Head(library), "hand"), draw_events)
                      ELSE <<>>} :
         /\ commands' = commands \o queued
         /\ flip_events' = flip_events \o [i \in 1..Len(queued) |-> queued[i].card]
         /\ shuffle_events' = IF library # <<>> THEN shuffle_events
                              ELSE shuffle_events + draw_events
         /\ deck_log' = Ran("draw_card", FALSE, draw_events, draw_events, queued, FALSE)
    /\ draw_events' = 0
    /\ ran' = ran \cup {"draw_card"}
    /\ UNCHANGED <<game_state, next_state_res, spawned, library, hand, discard,
                   spawn_events, phase_sent, rounds, panicked>>
    /\ UNCHANGED <<boidVars, boardVars>>

\* discard_into_library: every ShuffleDiscard event not yet read is read in
\* this run; q_discard.single_mut() panics when the discard has no children
discard_into_library ==
    /\ MayRun("discard_into_library")
    /\ IF shuffle_events > 0 /\ discard = <<>>
       THEN /\ panicked' = TRUE
            /\ deck_log' = Ran("discard_into_library", FALSE, 1, 0, <<>>, FALSE)
            /\ UNCHANGED <<commands, flip_events>>
       ELSE \E pass \in {[i \in 1..Len(discard) |-> Reparent(discard[i], "library")]} :
            \E queued \in {[i \in 1..(shuffle_events * Len(pass)) |->
                              pass[((i - 1) % Len(pass)) + 1]]} :
               /\ commands' = commands \o queued
               /\ flip_events' = flip_events \o [i \in 1..Len(queued) |-> queued[i].card]
               /\ deck_log' = Ran("discard_into_library", FALSE, shuffle_events,
                                  Len(queued), queued, FALSE)
               /\ UNCHANGED panicked
    /\ shuffle_events' = 0
    /\ ran' = ran \cup {"discard_into_library"}
    /\ UNCHANGED <<game_state, next_state_res, spawned, library, hand, discard,
                   spawn_events, draw_events, phase_sent, rounds>>
    /\ UNCHANGED <<boidVars, boardVars>>

\* the cards the SpawnCard events of the frame make, each a child of the
\* zone the event names, the library: the first has the identity first
Spawn(first, count) == [i \in 1..count |-> first + i - 1]

\* the end of a frame: the commands queued are applied in order and the
\* cards asked for are spawned
EndFrame ==
    /\ ~panicked
    /\ ran = Systems
    /\ library' = ChildrenAfter(library, "library", commands)
                     \o Spawn(Len(library) + Len(hand) + Len(discard) + 1, spawn_events)
    /\ hand' = ChildrenAfter(hand, "hand", commands)
    /\ discard' = ChildrenAfter(discard, "discard", commands)
    /\ next_state_res' = NextStateAfter(next_state_res, commands)
    /\ spawn_events' = 0
    /\ flip_events' = <<>>
    /\ commands' = <<>>
    /\ ran' = {}
    /\ deck_log' = NothingRan
    /\ UNCHANGED <<game_state, spawned, draw_events, shuffle_events, phase_sent, rounds, panicked>>
    /\ UNCHANGED <<boidVars, boardVars>>

\* the StateTransition schedule, at the start of a frame: the state asked
\* for becomes the state
StateTransition ==
    /\ ~panicked
    /\ next_state_res # NoState
    /\ next_state_res = "Draw" => rounds < MaxRounds
    /\ game_state' = next_state_res
    /\ rounds' = IF next_state_res = "Draw" THEN rounds + 1 ELSE rounds
    /\ next_state_res' = NoState
    /\ phase_sent' = 0
    /\ UNCHANGED <<spawned, library, hand, discard, spawn_events, draw_events,
                   shuffle_events, flip_events, commands, ran, deck_log, panicked>>
    /\ UNCHANGED <<boidVars, boardVars>>

DeckNext ==
    \/ StateTransition
    \/ setup_decks
    \/ draw_to_hand_size
    \/ discard_hand
    \/ play_turn
    \/ draw_card
    \/ discard_into_library
    \/ EndFrame

(***************************************************************************)
(* The board of src/src/board/mod.rs: shape_collisions and spawn_bodies.   *)
(* A frame is the physics step, which sends the Collision events, then the *)
(* two systems, once each and in either order (they are added in one tuple *)
(* with no order between them), then the end of the Update schedule, which *)
(* applies the spawn commands; spawn_on_timer has an empty body and is     *)
(* left out.  The Rule entities are given at the start and do not change.  *)
(* The arithmetic of polygons and colours and the average of transforms    *)
(* are kept as terms: a SpawnBody event names the operation and the two    *)
(* entities it was made from, and the body spawned for it has that shape.  *)
(***************************************************************************)

\* the most Collision events a run of shape_collisions reads
MaxCollisions == 2

\* the most entities of the world: spawn_bodies spawns no body beyond it
MaxEntities == 4

\* the entities of the world at the start
InitialEntities == 3

\* the systems of a frame that change the state
BoardSystems == {"spawn_bodies", "shape_collisions"}

\* Shape { polygon, color } of a named polygon and a named colour: polygons
\* and colours are terms, a name being the term of that name alone
Shape(polygon, color) == [polygon |-> <<polygon>>, color |-> <<color>>]

\* Operation::Add(s1, s2), Operation::Sub(s1, s2) and any other Operation
OperationAdd(s1, s2) == [kind |-> "Add", s1 |-> s1, s2 |-> s2]

OperationSub(s1, s2) == [kind |-> "Sub", s1 |-> s1, s2 |-> s2]

OperationOther(s1, s2) == [kind |-> "Other", s1 |-> s1, s2 |-> s2]

\* the shape of lines 176-179 and 187-190, of the polygons and the colours
\* of the two shapes of an operation
Combined(kind, s1, s2) ==
    [polygon |-> <<s1.polygon, kind, s2.polygon>>,
     color |-> <<s1.color, "fight", s2.color>>]

\* the Rule entities of a game, each the operations of its rule: none; one
\* with several operations; one whose second operation names the shape its
\* first one makes, so that a body spawned can combine again; two
RuleSets ==
    {<<>>,
     <<<<OperationOther(Shape("Triangle", "Red"), Shape("Square", "Blue")),
         OperationSub(Shape("Square", "Red"), Shape("Triangle", "Red")),
         OperationAdd(Shape("Square", "Blue"), Shape("Square", "Red")),
         OperationOther(Shape("Square", "Blue"), Shape("Square", "Red"))>>>>,
     <<<<OperationAdd(Shape("Triangle", "Red"), Shape("Square", "Blue")),
         OperationSub(Combined("Add", Shape("Triangle", "Red"), Shape("Square", "Blue")),
                      Shape("Triangle", "Blue"))>>>>,
     <<<<OperationAdd(Shape("Triangle", "Red"), Shape("Square", "Blue"))>>,
       <<OperationSub(Shape("Triangle", "Red"), Shape("Square", "Blue"))>>>>}

\* the entities q_shape finds at the start, with their shapes: in the
\* second game entity 3 is a wall
ShapeQueries ==
    {[entity \in {1, 2, 3} |->
         IF entity = 1 THEN Shape("Triangle", "Red")
         ELSE IF entity = 2 THEN Shape("Square", "Blue")
         ELSE Shape("Triangle", "Blue")],
     [entity \in {1, 2} |->
         IF entity = 1 THEN Shape("Square", "Red") ELSE Shape("Hexagon", "Blue")]}

\* Collision(contacts)
Collision(entity1, entity2) == [entity1 |-> entity1, entity2 |-> entity2]

\* what a run of shape_collisions did: the Collision events it was given,
\* the entities it marked combined, the SpawnBody events it sent and the
\* places of the Collision events it sent them for
NoRun == [ran |-> FALSE, events |-> <<>>, combined |-> <<>>, sent |-> <<>>,
          sent_at |-> <<>>]

\* the board before any collision
BoardStart ==
    /\ rules = <<>>
    /\ entities = 0
    /\ q_shape = <<>>
    /\ collision_events = <<>>
    /\ s_event = <<>>
    /\ spawn_commands = <<>>
    /\ board_ran = {}
    /\ board_log = NoRun

\* polygons_slc.contains(&polygon)
Contains(polygons_slc, polygon) ==
    \E i \in 1..Len(polygons_slc) : polygons_slc[i] = polygon

\* the filter of lines 164-172
Matches(op, polygons_slc) ==
    IF op.kind \in {"Add", "Sub"}
    THEN Contains(polygons_slc, op.s1.polygon) /\ Contains(polygons_slc, op.s2.polygon)
    ELSE FALSE

\* rule_ops.iter().filter(..).last(): the place of the last operation that
\* matches, 0 if none does
LastMatch(rule_ops, polygons_slc) ==
    IF \E i \in 1..Len(rule_ops) : Matches(rule_ops[i], polygons_slc)
    THEN CHOOSE i \in 1..Len(rule_ops) :
            /\ Matches(rule_ops[i], polygons_slc)
            /\ \A k \in (i + 1)..Len(rule_ops) : ~Matches(rule_ops[k], polygons_slc)
    ELSE 0

\* the SpawnBody event of lines 174-198: the shape is made of the shapes of
\* the operation, the transform and the velocity of those of the entities
SpawnBody(op, contacts) ==
    [shape |-> Combined(op.kind, op.s1, op.s2),
     transform |-> <<"average", contacts.entity1, contacts.entity2>>,
     velocity |-> <<"average", contacts.entity1, contacts.entity2>>]

\* a contact one of whose entities is combined, line 156, but for an entity
\* being marked by entity1 only
Skipped_entity1_only(combined, contacts) ==
    Contains(combined, contacts.entity1)

\* combined.contains(&&contacts.entity1) || combined.contains(&&contacts.entity2)
Skipped(combined, contacts) ==
    Contains(combined, contacts.entity1) \/ Contains(combined, contacts.entity2)

\* the loop of lines 146-203 after the first n events: the entities
\* combined, the events sent and the places of the collisions they were
\* sent for
RECURSIVE Collisions(_, _, _, _)
Collisions(events, n, rule_ops, shapes) ==
    IF n = 0 THEN [combined |-> <<>>, sent |-> <<>>, sent_at |-> <<>>]
    ELSE With(Collisions(events, n - 1, rule_ops, shapes), LAMBDA before :
         With(events[n], LAMBDA contacts :
            IF contacts.entity1 \notin DOMAIN shapes THEN before
            ELSE IF contacts.entity2 \notin DOMAIN shapes THEN before
            ELSE IF Skipped(before.combined, contacts) THEN before
            ELSE With(LastMatch(rule_ops, <<shapes[contacts.entity1].polygon,
                                            shapes[contacts.entity2].polygon>>),
                      LAMBDA last :
                 IF last = 0 THEN before
                 ELSE [combined |-> before.combined
                                       \o <<contacts.entity1, contacts.entity2>>,
                       sent |-> Append(before.sent, SpawnBody(rule_ops[last], contacts)),
                       sent_at |-> Append(before.sent_at, n)])))

\* the physics step, before the systems of the frame run, sends a Collision
\* event of two entities of the world
collide ==
    /\ board_ran = {}
    /\ Len(collision_events) < MaxCollisions
    /\ \E entity1 \in 1..entities : \E entity2 \in (1..entities) \ {entity1} :
          collision_events' = Append(collision_events, Collision(entity1, entity2))
    /\ UNCHANGED <<rules, entities, q_shape, s_event, spawn_commands, board_ran, board_log>>
    /\ UNCHANGED <<boidVars, deckVars>>

\* shape_collisions: without a single Rule it returns before it reads an
\* event; with one, every Collision event not yet read is read in this run
shape_collisions ==
    /\ "shape_collisions" \notin board_ran
    /\ IF Len(rules) # 1
       THEN /\ board_log' = [ran |-> TRUE, events |-> collision_events,
                             combined |-> <<>>, sent |-> <<>>, sent_at |-> <<>>]
            /\ UNCHANGED <<collision_events, s_event>>
       ELSE \E done \in {Collisions(collision_events, Len(collision_events),
                                    rules[1], q_shape)} :
               /\ s_event' = s_event \o done.sent
               /\ board_log' = [ran |-> TRUE, events |-> collision_events,
                                combined |-> done.combined, sent |-> done.sent,
                                sent_at |-> done.sent_at]
               /\ collision_events' = <<>>
    /\ board_ran' = board_ran \cup {"shape_collisions"}
    /\ UNCHANGED <<rules, entities, q_shape, spawn_commands>>
    /\ UNCHANGED <<boidVars, deckVars>>

\* spawn_bodies: every SpawnBody event not yet read is read in this run, and
\* a body with the shape of the event is queued for each
spawn_bodies ==
    /\ "spawn_bodies" \notin board_ran
    /\ entities + Len(s_event) <= MaxEntities
    /\ spawn_commands' = spawn_commands \o [i \in 1..Len(s_event) |-> s_event[i].shape]
    /\ s_event' = <<>>
    /\ board_ran' = board_ran \cup {"spawn_bodies"}
    /\ UNCHANGED <<rules, entities, q_shape, collision_events, board_log>>
    /\ UNCHANGED <<boidVars, deckVars>>

\* the end of a frame: the bodies queued are spawned, each a new entity with
\* its Shape, its Transform and, being a RigidBody, a LinearVelocity, so
\* that q_shape finds it from the next frame on
BoardEndFrame ==
    /\ board_ran = BoardSystems
    /\ entities' = entities + Len(spawn_commands)
    /\ q_shape' = [entity \in DOMAIN q_shape
                               \cup ((entities + 1)..(entities + Len(spawn_commands))) |->
                      IF entity \in DOMAIN q_shape THEN q_shape[entity]
                      ELSE spawn_commands[entity - entities]]
    /\ spawn_commands' = <<>>
    /\ board_ran' = {}
    /\ board_log' = NoRun
    /\ UNCHANGED <<rules, collision_events, s_event>>
    /\ UNCHANGED <<boidVars, deckVars>>

BoardNext ==
    \/ collide
    \/ shape_collisions
    \/ spawn_bodies
    \/ BoardEndFrame

(***************************************************************************)
(* The state machine                                                       *)
(***************************************************************************)
MaxFrames == 4

\* the sizes a single window takes, <<width, height>>
Windows == {<<1280, 720>>, <<300, 300>>, <<180, 120>>}

NoWindow == [single |-> FALSE, width |-> 0, height |-> 0]

\* the flocks move_boids is run over: every boid as spawn_boids would make
\* it, at an integer position of the spawn rectangle [-500, 300] x
\* [-500, 300], with one of the three roles and zero velocity.  No system of
\* the program calls spawn_boids, so a flock is an input of move_boids, the
\* boids its query finds, and not a state the program as built reaches
Flocks ==
    {<<BoidBundle_new(<<0, 0>>, Common), BoidBundle_new(<<3, 4>>, Common),
       BoidBundle_new(<<30, 0>>, Scout(1))>>,
     <<BoidBundle_new(<<-500, -500>>, Scout(2)), BoidBundle_new(<<-500, -500>>, Scout(2)),
       BoidBundle_new(<<0, 0>>, Common)>>,
     <<BoidBundle_new(<<0, 0>>, Common), BoidBundle_new(<<3, 4>>, Common),
       BoidBundle_new(<<-440, 100>>, Common)>>,
     <<BoidBundle_new(<<0, 0>>, Common), BoidBundle_new(<<20, 0>>, Common),
       BoidBundle_new(<<-20, 0>>, Scout(1)), BoidBundle_new(<<0, 20>>, Scout(2)),
       BoidBundle_new(<<0, -20>>, Common)>>,
     <<BoidBundle_new(<<-500, -500>>, Common)>>,
     <<BoidBundle_new(<<100, 100>>, Common)>>,
     <<BoidBundle_new(<<300, 300>>, Scout(1)), BoidBundle_new(<<295, 290>>, Common),
       BoidBundle_new(<<0, 0>>, Scout(2))>>,
     <<BoidBundle_new(<<-440, 100>>, Common), BoidBundle_new(<<-445, 103>>, Scout(1)),
       BoidBundle_new(<<-400, 100>>, Scout(2))>>,
     <<BoidBundle_new(<<30, 0>>, Scout(1)), BoidBundle_new(<<35, 0>>, Scout(2)),
       BoidBundle_new(<<300, -500>>, Common)>>,
     <<BoidBundle_new(<<0, 0>>, Scout(1)), BoidBundle_new(<<40, 40>>, Common),
       BoidBundle_new(<<50, 0>>, Scout(2)), BoidBundle_new(<<49, 9>>, Common)>>,
     <<BoidBundle_new(<<0, 0>>, Scout(1)), BoidBundle_new(<<100, 0>>, Scout(2)),
       BoidBundle_new(<<-100, 0>>, Common)>>,
     <<BoidBundle_new(<<-500, 0>>, Scout(1)), BoidBundle_new(<<-500, 100>>, Scout(2)),
       BoidBundle_new(<<-500, -100>>, Common)>>}

\* the boids of the program as BoidsPlugin::build leaves them: it adds
\* move_boids and no system that spawns a boid, so the query finds none
BoidsStart ==
    /\ boids = <<>>
    /\ window = NoWindow
    /\ driver = "Idle"
    /\ log = <<>>
    /\ frames = 0

Init == BoidsStart /\ DeckStart /\ BoardStart

\* a world that holds a flock when the first frame runs: what move_boids
\* does is a function of the boids its query finds
FlockInit ==
    /\ boids \in Flocks
    /\ window = NoWindow
    /\ driver = "Idle"
    /\ log = <<>>
    /\ frames = 0
    /\ DeckStart
    /\ BoardStart

\* move_boids in a frame where window.get_single() is Ok
MoveBoidsStepping ==
    /\ frames < MaxFrames
    /\ \E w \in Windows :
         \E tmp \in {CloneQuery(boids)}, screen_dimensions \in {<<FromInt(w[1]), FromInt(w[2])>>} :
            \E done \in {IterateBoids(1, boids, tmp, screen_dimensions, <<>>)} :
               /\ boids' = done.live
               /\ log' = done.log
               /\ window' = [single |-> TRUE, width |-> w[1], height |-> w[2]]
    /\ driver' = "Stepping"
    /\ frames' = frames + 1
    /\ UNCHANGED <<deckVars, boardVars>>

\* move_boids in a frame where window.get_single() is an error
MoveBoidsIdle ==
    /\ frames < MaxFrames
    /\ window' = NoWindow
    /\ driver' = "Idle"
    /\ log' = <<>>
    /\ frames' = frames + 1
    /\ UNCHANGED boids
    /\ UNCHANGED <<deckVars, boardVars>>

Next == MoveBoidsStepping \/ MoveBoidsIdle

\* the program as it is built: move_boids runs over no boid
Spec == Init /\ [][Next]_vars

\* move_boids over the flocks
FlockSpec == FlockInit /\ [][Next]_vars

DeckInit == DeckStart /\ BoidsStart /\ BoardStart

DeckSpec == DeckInit /\ [][DeckNext]_vars

\* every frame runs its systems and ends, and time passes: in some frame of
\* every run of frames discard_timer has finished
DeckFairness ==
    /\ WF_vars(draw_card)
    /\ WF_vars(discard_into_library)
    /\ WF_vars(EndFrame)
    /\ WF_vars(StateTransition)
    /\ WF_vars(setup_decks \/ draw_to_hand_size \/ play_turn)
    /\ SF_vars(discard_hand_when(TRUE))

DeckFairSpec == DeckInit /\ [][DeckNext]_vars /\ DeckFairness


\* a game with some Rule entities and some shapes on the board
BoardInit ==
    /\ rules \in RuleSets
    /\ entities = InitialEntities
    /\ q_shape \in ShapeQueries
    /\ collision_events = <<>>
    /\ s_event = <<>>
    /\ spawn_commands = <<>>
    /\ board_ran = {}
    /\ board_log = NoRun
    /\ BoidsStart
    /\ DeckStart

BoardSpec == BoardInit /\ [][BoardNext]_vars

(***************************************************************************)
(* Properties                                                              *)
(***************************************************************************)
HasNaN(boid) ==
    IsNaN(boid.pos[1]) \/ IsNaN(boid.pos[2]) \/ IsNaN(boid.vel[1]) \/ IsNaN(boid.vel[2])

\* C1: in a frame that steps, the estimate of every boid is the scan of the
\* boids as they were before the frame: no boid sees the new position or
\* velocity of a boid the loop reached before it.
C1_EstimateFromPreTickState ==
    [][driver' = "Stepping" =>
         \A k \in 1..Len(log') :
            log'[k].estimate = ScanAll(boids[log'[k].index], boids)]_vars

\* a frame in which a boid the loop reached earlier moved so that a later
\* boid's estimate of it alone would have come out differently
C1_Witness ==
    /\ driver = "Stepping"
    /\ \E j, k \in 1..Len(log) :
          /\ log[j].index < log[k].index
          /\ ~HasNaN(log[j].moved)
          /\ ScanAll(log[k].start, <<log[j].moved>>)
               # ScanAll(log[k].start, <<log[j].start>>)

\* C2: after a frame that steps, every boid's position is inside the arena
\* of the window the frame found.
C2_PositionInArena ==
    driver = "Stepping" =>
       LET half_width == FDiv(FromInt(window.width), FromInt(2))
           half_height == FDiv(FromInt(window.height), FromInt(2))
       IN  \A i \in 1..Len(boids) :
              /\ FGe(boids[i].pos[1], FNeg(half_width))
              /\ FLe(boids[i].pos[1], half_width)
              /\ FGe(boids[i].pos[2], FNeg(half_height))
              /\ FLe(boids[i].pos[2], half_height)

\* C3: a boid that enters compute_new_speed with zero velocity leaves it with
\* zero velocity, and no position or velocity is ever NaN.
C3_ZeroSpeedSafe ==
    /\ \A k \in 1..Len(log) :
          log[k].biased.vel = <<Zero, Zero>> => log[k].normalized.vel = <<Zero, Zero>>
    /\ \A i \in 1..Len(boids) : ~HasNaN(boids[i])

\* 2^-19: four units in the last place of an f32 between 4 and 8
SpeedTolerance == FDiv(FromInt(1), FromInt(524288))

\* a and b differ by at most SpeedTolerance
WithinTolerance(a, b) == FLe(FAbs(FSub(a, b)), SpeedTolerance)

\* C4 as claimed: a boid that enters compute_new_speed with a nonzero speed
\* leaves it with a speed in [min_speed, max_speed]: a speed below min_speed
\* is rescaled to min_speed, one above max_speed to max_speed, one in the band
\* is left as it is, and no speed is both below min_speed and above max_speed.
C4_SpeedInBandAsClaimed ==
    \A k \in 1..Len(log) :
       LET before == Speed(log[k].biased.vel)
           after == Speed(log[k].normalized.vel)
       IN  FGt(before, Zero) =>
              /\ FGe(after, MIN_SPEED)
              /\ FLe(after, MAX_SPEED)
              /\ FLt(before, MIN_SPEED) => after = MIN_SPEED
              /\ FGt(before, MAX_SPEED) => after = MAX_SPEED
              /\ (FGe(before, MIN_SPEED) /\ FLe(before, MAX_SPEED))
                    => log[k].normalized.vel = log[k].biased.vel
              /\ ~(FLt(before, MIN_SPEED) /\ FGt(before, MAX_SPEED))

\* C4 amended: as claimed, but to within the rounding of f32: the speed after
\* is within 2^-19 of the band, and a rescaled speed within 2^-19 of its
\* target.
C4_SpeedInBand ==
    \A k \in 1..Len(log) :
       LET before == Speed(log[k].biased.vel)
           after == Speed(log[k].normalized.vel)
       IN  FGt(before, Zero) =>
              /\ FGe(after, FSub(MIN_SPEED, SpeedTolerance))
              /\ FLe(after, FAdd(MAX_SPEED, SpeedTolerance))
              /\ FLt(before, MIN_SPEED) => WithinTolerance(after, MIN_SPEED)
              /\ FGt(before, MAX_SPEED) => WithinTolerance(after, MAX_SPEED)
              /\ (FGe(before, MIN_SPEED) /\ FLe(before, MAX_SPEED))
                    => log[k].normalized.vel = log[k].biased.vel
              /\ ~(FLt(before, MIN_SPEED) /\ FGt(before, MAX_SPEED))

\* a frame in which one boid was sped up from a nonzero speed, one was slowed
\* down and one was left at a speed in the band
C4_Witness ==
    \E a, b, c \in 1..Len(log) :
       LET sa == Speed(log[a].biased.vel)
           sb == Speed(log[b].biased.vel)
           sc == Speed(log[c].biased.vel)
       IN  /\ FGt(sa, Zero) /\ FLt(sa, MIN_SPEED)
           /\ FGt(sb, MAX_SPEED)
           /\ FGe(sc, MIN_SPEED) /\ FLe(sc, MAX_SPEED)

\* C5: a boid whose scan ends with no neighbor in the visual band has its
\* sums left undivided and is given no cohesion, alignment or avoidance: it
\* enters turn_if_edge with the velocity it had before the frame, whatever
\* its close_dx and close_dy.
C5_NoNeighborsNoSteering ==
    \A k \in 1..Len(log) :
       log[k].estimate.neighboring_boids = 0 =>
          /\ log[k].averaged = log[k].estimate
          /\ log[k].cohered = log[k].start
          /\ log[k].aligned = log[k].start
          /\ log[k].steered.vel = log[k].start.vel

\* a moving boid with another inside its protected range and none in the
\* visual band
C5_Witness ==
    \E k \in 1..Len(log) :
       /\ log[k].estimate.neighboring_boids = 0
       /\ log[k].estimate.close_dx # Zero \/ log[k].estimate.close_dy # Zero
       /\ ~HasNaN(log[k].start)
       /\ log[k].start.vel # <<Zero, Zero>>

\* C6: a boid whose scan ends with a nonzero close offset and no neighbor in
\* the visual band has close offset * avoidance factor added to its velocity.
C6_AvoidanceWithoutNeighbors ==
    \A k \in 1..Len(log) :
       LET e == log[k].estimate
       IN  (e.neighboring_boids = 0 /\ (e.close_dx # Zero \/ e.close_dy # Zero)) =>
              log[k].steered.vel =
                 <<FAdd(log[k].start.vel[1], FMul(e.close_dx, AVOIDANCE_FACTOR)),
                   FAdd(log[k].start.vel[2], FMul(e.close_dy, AVOIDANCE_FACTOR))>>

\* C7: every frame leaves the driver Idle or Stepping, whichever state it was
\* in before; a frame that finds no single window changes no boid; a frame
\* that finds one makes one pass of the loop over every boid, each exactly
\* once; and no state is terminal: in every state short of the bound on the
\* number of frames, which is the only thing that stops the driver, a frame
\* that finds no window can run and a frame that finds one can.
C7_TickDriver ==
    /\ [](frames < MaxFrames => (ENABLED MoveBoidsIdle /\ ENABLED MoveBoidsStepping))
    /\ [][/\ driver' \in {"Idle", "Stepping"}
          /\ driver' = "Idle" => (boids' = boids /\ log' = <<>>)
          /\ driver' = "Stepping" =>
                /\ Len(boids') = Len(boids)
                /\ Len(log') = Len(boids)
                /\ \A i \in 1..Len(boids) :
                      Cardinality({k \in 1..Len(log') : log'[k].index = i}) = 1
         ]_vars

\* an idle frame that followed a frame in which boids moved
C7_Witness ==
    /\ driver = "Idle"
    /\ frames > 0
    /\ \E i \in 1..Len(boids) : ~HasNaN(boids[i]) /\ boids[i].vel # <<Zero, Zero>>

\* the sequence s without its i-th entry
Without(s, i) == SubSeq(s, 1, i - 1) \o SubSeq(s, i + 1, Len(s))

\* the boids as the loop of the last frame found them, in query order
PreTick == [k \in 1..Len(log) |-> log[k].start]

\* C9: the estimate of a boid is the one a scan of the flock without that
\* boid's own entry gives: its own record, at distance 0, adds nothing to its
\* count, sums or close offset.
C9_SelfExcluded ==
    \A k \in 1..Len(log) :
       log[k].estimate = ScanAll(log[k].start, Without(PreTick, k))

\* a moving boid, away from the origin, with a neighbor in the visual band
C9_Witness ==
    \E k \in 1..Len(log) :
       /\ log[k].estimate.neighboring_boids > 0
       /\ ~HasNaN(log[k].start)
       /\ log[k].start.vel # <<Zero, Zero>>
       /\ log[k].start.pos # <<Zero, Zero>>

\* dx^2 + dy^2 < r^2, in f32
WithinRadius(dx, dy, r) == FLt(FAdd(FMul(dx, dx), FMul(dy, dy)), FMul(r, r))

\* the distance between the positions of boids a and b is less than r
Near(a, b, r) ==
    WithinRadius(FSub(a.pos[1], b.pos[1]), FSub(a.pos[2], b.pos[2]), FromInt(r))

\* the estimate of boid a with the boids others[j..], each classified by its
\* distance from a, added to the estimate e
RECURSIVE Classified(_, _, _, _)
Classified(a, others, j, e) ==
    IF j > Len(others) THEN e
    ELSE LET b == others[j]
             dx == FSub(a.pos[1], b.pos[1])
             dy == FSub(a.pos[2], b.pos[2])
             next ==
                IF WithinRadius(dx, dy, FromInt(ISOLATION_RANGE))
                THEN [e EXCEPT !.close_dx = FAdd(@, dx), !.close_dy = FAdd(@, dy)]
                ELSE IF WithinRadius(dx, dy, FromInt(VISION_RANGE))
                THEN [e EXCEPT !.xpos_avg = FAdd(@, b.pos[1]),
                               !.ypos_avg = FAdd(@, b.pos[2]),
                               !.xvel_avg = FAdd(@, b.vel[1]),
                               !.yvel_avg = FAdd(@, b.vel[2]),
                               !.neighboring_boids = @ + 1]
                ELSE e
         IN  Classified(a, others, j + 1, next)

\* in a flock of three, boid i is beyond the visual range of boids p and q,
\* which are within the protected range of each other
IsolatedAndPair(i, p, q) ==
    /\ Len(log) = 3
    /\ {i, p, q} = {1, 2, 3}
    /\ ~HasNaN(log[i].start) /\ ~HasNaN(log[p].start) /\ ~HasNaN(log[q].start)
    /\ ~Near(log[i].start, log[p].start, VISION_RANGE)
    /\ ~Near(log[i].start, log[q].start, VISION_RANGE)
    /\ Near(log[p].start, log[q].start, ISOLATION_RANGE)

\* C10 as claimed: the estimate of every boid is the sum over the other boids
\* of what the classification by distance gives, and in a flock of three with
\* one boid isolated from an adjacent pair, the isolated boid ends with count
\* 0 and zero close offset and each boid of the pair with count 0 and a
\* nonzero close offset.
C10_ClassificationAsClaimed ==
    /\ \A k \in 1..Len(log) :
          log[k].estimate =
             Classified(log[k].start, Without(PreTick, k), 1, BoidEstimate_new)
    /\ \A i, p, q \in 1..Len(log) :
          IsolatedAndPair(i, p, q) =>
             /\ log[i].estimate.neighboring_boids = 0
             /\ log[i].estimate.close_dx = Zero /\ log[i].estimate.close_dy = Zero
             /\ log[p].estimate.neighboring_boids = 0
             /\ log[p].estimate.close_dx # Zero \/ log[p].estimate.close_dy # Zero

\* C10 amended: as claimed, but the close offset of each boid of the pair is
\* its offset from the other boid of the pair, which is nonzero exactly when
\* the two are not at the same position.
C10_Classification ==
    /\ \A k \in 1..Len(log) :
          log[k].estimate =
             Classified(log[k].start, Without(PreTick, k), 1, BoidEstimate_new)
    /\ \A i, p, q \in 1..Len(log) :
          IsolatedAndPair(i, p, q) =>
             /\ log[i].estimate.neighboring_boids = 0
             /\ log[i].estimate.close_dx = Zero /\ log[i].estimate.close_dy = Zero
             /\ log[p].estimate.neighboring_boids = 0
             /\ log[p].estimate.close_dx = FSub(log[p].start.pos[1], log[q].start.pos[1])
             /\ log[p].estimate.close_dy = FSub(log[p].start.pos[2], log[q].start.pos[2])
             /\ (log[p].estimate.close_dx # Zero \/ log[p].estimate.close_dy # Zero)
                   <=> log[p].start.pos # log[q].start.pos

\* a moving flock of three with one boid isolated from a pair of boids that
\* are adjacent and not at the same position
C10_Witness ==
    \E i, p, q \in 1..Len(log) :
       /\ IsolatedAndPair(i, p, q)
       /\ log[p].start.pos # log[q].start.pos
       /\ \A k \in 1..Len(log) : ~HasNaN(log[k].start) /\ log[k].start.vel # <<Zero, Zero>>

\* a and b are numbers of opposite signs
OppositeSigns(a, b) ==
    \/ FGt(a, Zero) /\ FLt(b, Zero)
    \/ FLt(a, Zero) /\ FGt(b, Zero)

\* passes s1, s2 and c of the last frame are those of a Scout(1), a Scout(2)
\* and a Common boid that entered apply_bias with the same velocity
SameVelocityTrio(s1, s2, c) ==
    /\ log[s1].turned.role = Scout(1)
    /\ log[s2].turned.role = Scout(2)
    /\ log[c].turned.role = Common
    /\ log[s1].turned.vel = log[s2].turned.vel
    /\ log[s1].turned.vel = log[c].turned.vel

\* C11 as claimed: when a Scout(1), a Scout(2) and a Common boid enter
\* apply_bias with the same velocity, the vx of the two scouts leave it with
\* opposite signs and the Common boid leaves it unchanged.
C11_BiasOppositeSigns ==
    \A s1, s2, c \in 1..Len(log) :
       SameVelocityTrio(s1, s2, c) =>
          /\ OppositeSigns(log[s1].biased.vel[1], log[s2].biased.vel[1])
          /\ log[c].biased = log[c].turned

\* C11 amended: when a Scout(1), a Scout(2) and a Common boid enter
\* apply_bias with the same velocity, the Common boid leaves it unchanged,
\* the scouts leave it with their vy and position unchanged and, when the vx
\* they entered with is a number, the vx of the Scout(1) greater than that of
\* the Scout(2); the two have opposite signs exactly when (1 - bias) * vx is
\* smaller than bias in magnitude.
C11_BiasSeparates ==
    \A s1, s2, c \in 1..Len(log) :
       SameVelocityTrio(s1, s2, c) =>
          LET vx == log[c].turned.vel[1]
              vx1 == log[s1].biased.vel[1]
              vx2 == log[s2].biased.vel[1]
          IN  /\ log[c].biased = log[c].turned
              /\ log[s1].biased = [log[s1].turned EXCEPT !.vel[1] = vx1]
              /\ log[s2].biased = [log[s2].turned EXCEPT !.vel[1] = vx2]
              /\ ~IsNaN(vx) => FGt(vx1, vx2)
              /\ OppositeSigns(vx1, vx2)
                    <=> FLt(FAbs(FMul(FSub(FromInt(1), BIAS), vx)), BIAS)

\* a frame in which a Scout(1), a Scout(2) and a Common boid entered
\* apply_bias with the same velocity, a nonzero number
C11_Witness ==
    \E s1, s2, c \in 1..Len(log) :
       /\ SameVelocityTrio(s1, s2, c)
       /\ ~HasNaN(log[c].turned)
       /\ log[c].turned.vel # <<Zero, Zero>>

\* half of the width and of the height of the window the last frame found
HalfWidth == FDiv(FromInt(window.width), FromInt(2))

HalfHeight == FDiv(FromInt(window.height), FromInt(2))

\* the coordinate p is at the bound of an arena of half-extent half, and the
\* velocity component v points out of the arena there
OutwardAtBound(p, v, half) ==
    \/ p = half /\ FGt(v, Zero)
    \/ p = FNeg(half) /\ FLt(v, Zero)

\* the velocity component v nudged by the turn amount toward the interior of
\* the arena, from the coordinate p
NudgedInward(p, v) ==
    IF FGt(p, Zero) THEN FSub(v, TURN_FACTOR) ELSE FAdd(v, TURN_FACTOR)

\* the last frame was a tick of a single boid that was at a corner of the
\* arena with a velocity pointing outward on both axes
CornerOutward ==
    /\ driver = "Stepping"
    /\ Len(log) = 1
    /\ OutwardAtBound(log[1].start.pos[1], log[1].start.vel[1], HalfWidth)
    /\ OutwardAtBound(log[1].start.pos[2], log[1].start.vel[2], HalfHeight)

\* C12: a single boid at a corner of the arena with a velocity pointing
\* outward on both axes leaves turn_if_edge with both velocity components
\* changed by the turn amount toward the interior, and ends the tick at the
\* corner, on the bound on both axes.
C12_CornerScenario ==
    CornerOutward =>
       /\ log[1].turned.vel[1] = NudgedInward(log[1].start.pos[1], log[1].start.vel[1])
       /\ log[1].turned.vel[2] = NudgedInward(log[1].start.pos[2], log[1].start.vel[2])
       /\ log[1].moved.pos = log[1].start.pos

\* boid b is inside the box of boid a: |dx| and |dy| are both less than the
\* visual range
InBox(a, b) ==
    /\ FLt(FAbs(FSub(a.pos[1], b.pos[1])), FromInt(VISION_RANGE))
    /\ FLt(FAbs(FSub(a.pos[2], b.pos[2])), FromInt(VISION_RANGE))

\* the boids of the sequence others that are inside the box of boid a
BoxOf(a, others) ==
    LET Inside(b) == InBox(a, b)
    IN  SelectSeq(others, Inside)

\* C13: a boid with |dx| >= visual_range or |dy| >= visual_range from boid a
\* adds nothing to the estimate of a, neither to its count and sums nor to
\* its close offset: the estimate of a is the one a scan of the boids inside
\* its box gives. No boid outside the box of a is at a distance less than the
\* visual range from a.
C13_BoxPrefilter ==
    \A k \in 1..Len(log) :
       /\ log[k].estimate = ScanAll(log[k].start, BoxOf(log[k].start, PreTick))
       /\ \A j \in 1..Len(log) :
             ~InBox(log[k].start, log[j].start) =>
                /\ ScanAll(log[k].start, <<log[j].start>>) = BoidEstimate_new
                /\ ~Near(log[k].start, log[j].start, VISION_RANGE)

\* a frame in which a moving boid had a neighbor in the visual band, another
\* boid outside its box, and a third inside its box but beyond the visual
\* range
C13_Witness ==
    \E k, j, c \in 1..Len(log) :
       /\ \A i \in 1..Len(log) : ~HasNaN(log[i].start)
       /\ log[k].start.vel # <<Zero, Zero>>
       /\ log[k].estimate.neighboring_boids > 0
       /\ ~InBox(log[k].start, log[j].start)
       /\ InBox(log[k].start, log[c].start)
       /\ ~Near(log[k].start, log[c].start, VISION_RANGE)

\* C14: no frame changes the number of boids or the role of any boid, so
\* after any sequence of frames the flock has the size and the roles it was
\* spawned with.
C14_RolesAndSizeKept ==
    [][/\ Len(boids') = Len(boids)
       /\ \A i \in 1..Len(boids) : boids'[i].role = boids[i].role]_vars

\* a frame, not the first, in which a Scout(1), a Scout(2) and a Common boid
\* all moved
C14_Witness ==
    /\ driver = "Stepping"
    /\ frames > 1
    /\ \A role \in {Scout(1), Scout(2), Common} :
          \E k \in 1..Len(log) :
             /\ log[k].start.role = role
             /\ ~HasNaN(log[k].moved)
             /\ log[k].start.vel # <<Zero, Zero>>
             /\ log[k].moved.pos # log[k].start.pos

\* the size of the window the last frame found, as move_boids passes it on
ScreenDimensions == <<FromInt(window.width), FromInt(window.height)>>

\* v + (avg - v) * matching_factor: the velocity component v matched to avg
Matched(v, avg) == FAdd(v, FMul(FSub(avg, v), MATCHING_FACTOR))

\* v + ((avg_p - p) * centering_factor + (avg_v - v) * matching_factor)
Centered(v, p, avg_p, avg_v) ==
    FAdd(v, FAdd(FMul(FSub(avg_p, p), CENTERING_FACTOR),
                 FMul(FSub(avg_v, v), MATCHING_FACTOR)))

\* C15: a boid whose scan counts at least one neighbor has its velocity
\* updated by this sequence, each step reading the velocity the previous one
\* left and none moving the boid: the sums are divided by the count; (1) v +=
\* (avg_position - position) * centering_factor + (avg_velocity - v) *
\* matching_factor; (2) v += (avg_velocity - v) * matching_factor; (3) v +=
\* close_offset * avoidance_factor; (4) turn_if_edge; (5) apply_bias; (6)
\* compute_new_speed; the position is then the old position plus the
\* normalized velocity, clamped.
C15_StepOrder ==
    \A k \in 1..Len(log) :
       log[k].estimate.neighboring_boids > 0 =>
          LET r == log[k]
              n == FromInt(r.estimate.neighboring_boids)
              a == r.averaged
              p == r.start.pos
              v0 == r.start.vel
              v1 == r.cohered.vel
              v2 == r.aligned.vel
          IN  /\ a = [r.estimate EXCEPT !.xpos_avg = FDiv(@, n), !.ypos_avg = FDiv(@, n),
                                        !.xvel_avg = FDiv(@, n), !.yvel_avg = FDiv(@, n)]
              /\ r.cohered = [r.start EXCEPT !.vel =
                                <<Centered(v0[1], p[1], a.xpos_avg, a.xvel_avg),
                                  Centered(v0[2], p[2], a.ypos_avg, a.yvel_avg)>>]
              /\ r.aligned = [r.start EXCEPT !.vel =
                                <<Matched(v1[1], a.xvel_avg), Matched(v1[2], a.yvel_avg)>>]
              /\ r.steered = [r.start EXCEPT !.vel =
                                <<FAdd(v2[1], FMul(a.close_dx, AVOIDANCE_FACTOR)),
                                  FAdd(v2[2], FMul(a.close_dy, AVOIDANCE_FACTOR))>>]
              /\ r.turned = turn_if_edge(r.steered, ScreenDimensions)
              /\ r.biased = apply_bias(r.turned)
              /\ r.normalized = compute_new_speed(r.biased)
              /\ r.normalized.pos = p
              /\ r.moved.vel = r.normalized.vel
              /\ r.moved.pos =
                    <<Clamp(FAdd(p[1], r.normalized.vel[1]), FDiv(ScreenDimensions[1], FromInt(2))),
                      Clamp(FAdd(p[2], r.normalized.vel[2]), FDiv(ScreenDimensions[2], FromInt(2)))>>
              /\ boids[r.index] = r.moved

\* a frame in which a moving scout had a neighbor in the visual band and a
\* nonzero close offset, and every one of the six steps changed its velocity
C15_Witness ==
    \E k \in 1..Len(log) :
       /\ log[k].estimate.neighboring_boids > 0
       /\ log[k].estimate.close_dx # Zero
       /\ ~HasNaN(log[k].start) /\ ~HasNaN(log[k].moved)
       /\ log[k].start.vel # <<Zero, Zero>>
       /\ log[k].cohered.vel # log[k].start.vel
       /\ log[k].aligned.vel # log[k].cohered.vel
       /\ log[k].steered.vel # log[k].aligned.vel
       /\ log[k].turned.vel # log[k].steered.vel
       /\ log[k].biased.vel # log[k].turned.vel
       /\ log[k].normalized.vel # log[k].biased.vel

\* the coordinate p is within the margin of the lower bound of an arena of
\* half-extent half
NearLow(p, half) == FLe(p, FAdd(FNeg(half), FromInt(EDGE_MARGIN)))

\* the coordinate p is within the margin of the upper bound
NearHigh(p, half) == FGe(p, FSub(half, FromInt(EDGE_MARGIN)))

\* the velocity component v nudged inward by the turn amount from every bound
\* the coordinate p is within the margin of
NudgedFromBounds(p, v, half) ==
    LET from_low == IF NearLow(p, half) THEN FAdd(v, TURN_FACTOR) ELSE v
    IN  IF NearHigh(p, half) THEN FSub(from_low, TURN_FACTOR) ELSE from_low

\* C16: in every pass of the loop, whatever the count of neighbors, the boid
\* leaves turn_if_edge with each velocity component nudged inward by the turn
\* amount from each bound of its axis the boid is within the margin of, the
\* two axes independently, and unchanged on an axis where it is outside the
\* margins; position and role are unchanged; in arenas of every size.
C16_EdgeTurning ==
    \A k \in 1..Len(log) :
       LET before == log[k].steered
       IN  log[k].turned =
              [before EXCEPT !.vel =
                 <<NudgedFromBounds(before.pos[1], before.vel[1], HalfWidth),
                   NudgedFromBounds(before.pos[2], before.vel[2], HalfHeight)>>]

\* the next state has been asked for: the command is queued, or it has been
\* applied and the state transition has not run yet
Requested ==
    \/ next_state_res # NoState
    \/ \E i \in 1..Len(commands) : commands[i].op = "insert_next_state"

\* the number of events the phase system of the state sends before it asks
\* for the next state
Target(state) ==
    IF state = "Setup" THEN library_size
    ELSE IF state = "Draw" THEN hand_size
    ELSE 0

\* C17: in state Setup setup_decks sends exactly library_size SpawnCard events
\* before it asks for the next state, and in state Draw draw_to_hand_size
\* sends exactly hand_size DrawCard events before it does; DeckSetup.spawned
\* never exceeds the target of the state, counts the events sent since the
\* state was entered until the next state is asked for, and is 0 from then
\* on, so that every state starts its count from 0.
C17_PhaseCounter ==
    /\ spawned <= Target(game_state)
    /\ game_state \in {"Setup", "Draw"} =>
          IF Requested
          THEN phase_sent = Target(game_state) /\ spawned = 0
          ELSE phase_sent < Target(game_state) /\ spawned = phase_sent
    /\ game_state \notin {"Setup", "Draw"} => spawned = 0 /\ phase_sent = 0
    /\ deck_log.system = "setup_decks" => (deck_log.queued # <<>> <=> Requested)
    /\ deck_log.system = "draw_to_hand_size" => (deck_log.queued # <<>> <=> Requested)

\* the frame in which draw_to_hand_size asks for the next state, in a state
\* Draw entered after a state Setup and an earlier state Draw had run their
\* counts
C17_Witness ==
    /\ game_state = "Draw"
    /\ rounds >= 2
    /\ deck_log.system = "draw_to_hand_size"
    /\ deck_log.queued # <<>>
    /\ phase_sent = hand_size

\* the cards of a zone
CardsOf(children) == {children[i] : i \in 1..Len(children)}

\* discard_hand has asked for the state Draw
DrawRequested ==
    \/ next_state_res = "Draw"
    \/ \E i \in 1..Len(commands) : commands[i] = InsertNextState("Draw")

\* C18: in state Discard, a run of discard_hand in which discard_timer has
\* finished queues the move of exactly one card, the first child of the
\* hand, to the discard, and the frame ends with that card out of the hand
\* and last in the discard, the only card new to the discard; a run with no
\* child in the hand resets the timer, asks for the state Draw and moves no
\* card; the hand never grows in state Discard; and the state Discard leads
\* to the state Draw being asked for.
C18_DiscardTerminates ==
    /\ [][/\ (deck_log'.system = "discard_hand" /\ deck_log' # deck_log) =>
               deck_log'.queued =
                  IF hand = <<>> THEN <<InsertNextState("Draw")>>
                  ELSE IF deck_log'.finished THEN <<Reparent(Head(hand), "discard")>>
                  ELSE <<>>
          /\ (deck_log'.system = "discard_hand" /\ deck_log' # deck_log) =>
               deck_log'.reset = (hand = <<>>)
          /\ (game_state = "Discard" /\ ran = Systems /\ ran' = {}) =>
               IF \E i \in 1..Len(commands) : commands[i].parent = "discard"
               THEN /\ hand' = Tail(hand)
                    /\ discard' # <<>>
                    /\ discard'[Len(discard')] = Head(hand)
                    /\ CardsOf(discard') \ CardsOf(discard) = {Head(hand)}
                    /\ ~DrawRequested'
               ELSE /\ hand' = hand
                    /\ CardsOf(discard') \subseteq CardsOf(discard)
                    /\ DrawRequested' <=> hand = <<>>
          /\ (game_state = "Discard" /\ game_state' = "Discard") =>
               Len(hand') <= Len(hand)
         ]_vars
    /\ (game_state = "Discard") ~> DrawRequested

\* the cards of the game
AllCards == CardsOf(library) \cup CardsOf(hand) \cup CardsOf(discard)

\* the children of the zone of a name, among the three given
ZoneOf(name, library_children, hand_children, discard_children) ==
    IF name = "library" THEN library_children
    ELSE IF name = "hand" THEN hand_children
    ELSE discard_children

\* the cards the commands of a queue re-parent
Moved(queue) ==
    {queue[i].card : i \in {k \in 1..Len(queue) : queue[k].op = "reparent"}}

\* C19: draw_card, discard_hand and discard_into_library only re-parent
\* cards that exist; every DrawCard event read with a child in the library
\* queues the move of the first child of the library to the hand and sends a
\* FlipCard for it, and one read with no child in the library sends a
\* ShuffleDiscard and queues nothing; every ShuffleDiscard event read queues
\* the move of every child of the discard to the library; at the end of the
\* frame every card moved is in the zone it was moved to and every other
\* card is where it was; every card is in exactly one of library, hand and
\* discard, no card is lost or made once the library is set up, and the
\* number of cards is library_size.
C19_CardConservation ==
    /\ [](/\ Cardinality(AllCards) = Len(library) + Len(hand) + Len(discard)
          /\ Moved(commands) \subseteq AllCards
          /\ game_state # "Setup" => Cardinality(AllCards) = library_size)
    /\ [][/\ ("draw_card" \notin ran /\ "draw_card" \in ran') =>
               IF library # <<>>
               THEN /\ commands' = commands \o Repeat(Reparent(Head(library), "hand"),
                                                       draw_events)
                    /\ flip_events' = flip_events \o Repeat(Head(library), draw_events)
                    /\ shuffle_events' = shuffle_events
               ELSE /\ commands' = commands
                    /\ flip_events' = flip_events
                    /\ shuffle_events' = shuffle_events + draw_events
          /\ ("discard_into_library" \notin ran /\ "discard_into_library" \in ran'
                 /\ shuffle_events > 0 /\ ~panicked') =>
               /\ Moved(commands') = Moved(commands) \cup CardsOf(discard)
               /\ \A i \in (Len(commands) + 1)..Len(commands') :
                     commands'[i].op = "reparent" /\ commands'[i].parent = "library"
               /\ Len(commands') = Len(commands) + shuffle_events * Len(discard)
          /\ (ran = Systems /\ ran' = {}) =>
               /\ \A i \in 1..Len(commands) :
                     commands[i].op = "reparent" =>
                        commands[i].card \in
                           CardsOf(ZoneOf(commands[i].parent, library', hand', discard'))
               /\ \A name \in {"library", "hand", "discard"} :
                     CardsOf(ZoneOf(name, library, hand, discard)) \ Moved(commands)
                        \subseteq CardsOf(ZoneOf(name, library', hand', discard'))
          /\ spawn_events = 0 => AllCards' = AllCards
         ]_vars

\* the end of a frame in which discard_into_library has queued the moves of
\* the children of the discard to the library and discard_hand the move of
\* a card of the hand to the discard
C19_Witness ==
    /\ ran = Systems
    /\ \E i \in 1..Len(commands) : commands[i].op = "reparent" /\ commands[i].parent = "library"
    /\ \E i \in 1..Len(commands) : commands[i].op = "reparent" /\ commands[i].parent = "discard"
    /\ Cardinality(Moved(commands)) > hand_size

\* the entities of a contact
EntitiesOf(contacts) == {contacts.entity1, contacts.entity2}

\* the collision is of two shapes whose polygons some Add or Sub operation
\* of the single Rule names
MatchesRule(contacts) ==
    /\ Len(rules) = 1
    /\ contacts.entity1 \in DOMAIN q_shape
    /\ contacts.entity2 \in DOMAIN q_shape
    /\ \E i \in 1..Len(rules[1]) :
          /\ rules[1][i].kind \in {"Add", "Sub"}
          /\ {rules[1][i].s1.polygon, rules[1][i].s2.polygon}
                \subseteq {q_shape[contacts.entity1].polygon,
                           q_shape[contacts.entity2].polygon}

\* the places, among the events of the last run, of the collisions a
\* SpawnBody was sent for
SentAt == {board_log.sent_at[i] : i \in 1..Len(board_log.sent_at)}

\* C20: in a run of shape_collisions one SpawnBody event is sent for every
\* collision of two shapes that matches an Add or Sub operation of the single
\* Rule and shares no entity with an earlier collision of the run for which
\* one was sent, and for no other collision; so no entity is used in two
\* SpawnBody events of a run; the entities marked combined are those of the
\* collisions an event was sent for, and no other; without a single Rule
\* the run sends nothing and marks nothing; and the events sent are the last
\* of the SpawnBody events until spawn_bodies reads them.
C20_OneMergePerEntity ==
    board_log.ran =>
       /\ Len(board_log.sent) = Len(board_log.sent_at)
       /\ \A i \in 1..Len(board_log.sent) :
             /\ board_log.sent_at[i] \in 1..Len(board_log.events)
             /\ board_log.sent[i].transform =
                   <<"average", board_log.events[board_log.sent_at[i]].entity1,
                     board_log.events[board_log.sent_at[i]].entity2>>
       /\ \A i \in 1..Len(board_log.sent) : \A j \in 1..Len(board_log.sent) :
             i < j =>
                /\ board_log.sent_at[i] < board_log.sent_at[j]
                /\ EntitiesOf(board_log.events[board_log.sent_at[i]])
                      \cap EntitiesOf(board_log.events[board_log.sent_at[j]]) = {}
       /\ \A k \in 1..Len(board_log.events) :
             k \in SentAt <=>
                /\ MatchesRule(board_log.events[k])
                /\ \A j \in SentAt :
                      j < k => EntitiesOf(board_log.events[k])
                                  \cap EntitiesOf(board_log.events[j]) = {}
       /\ board_log.combined =
             [i \in 1..(2 * Len(board_log.sent_at)) |->
                 IF i % 2 = 1 THEN board_log.events[board_log.sent_at[(i + 1) \div 2]].entity1
                 ELSE board_log.events[board_log.sent_at[i \div 2]].entity2]
       /\ Len(rules) # 1 => board_log.sent = <<>> /\ board_log.combined = <<>>
       /\ "spawn_bodies" \notin board_ran =>
             /\ Len(s_event) >= Len(board_log.sent)
             /\ board_log.sent = SubSeq(s_event, Len(s_event) - Len(board_log.sent) + 1,
                                        Len(s_event))

\* a run of two collisions with a single Rule, in a frame after a body was
\* spawned for an earlier SpawnBody event: a SpawnBody is sent for a
\* collision of that body, and the other collision, which matches the rule
\* too, is skipped for sharing an entity with it
C20_Witness ==
    /\ board_log.ran
    /\ Len(board_log.events) = 2
    /\ Len(board_log.sent) = 1
    /\ \E k \in 1..2 : k \notin SentAt /\ MatchesRule(board_log.events[k])
    /\ \E k \in SentAt : board_log.events[k].entity1 > InitialEntities
=============================================================================
